---- MODULE Spec2Model ----
(***************************************************************************)
(* Model of memory-particles (src/src/main.rs): the ReportingAllocator     *)
(* that wraps the System allocator, and the World / Particle simulation.   *)
(*                                                                         *)
(* Number representation.                                                  *)
(*  - color is [f32; 4].  An f32 is modelled exactly as a record           *)
(*    [m, e] standing for m * 2^e, with 2^23 <= m < 2^24 for a normal      *)
(*    number and m < 2^23, e = -149 for a subnormal one.  The only f32     *)
(*    arithmetic of the program is `color[3] *= 0.995`, modelled by        *)
(*    F32MulFrac with IEEE round-to-nearest-even.                          *)
(*  - the f64 fields (position, velocity, acceleration, sizes) are         *)
(*    modelled on a fixed-point grid of 1/1000: the integer k stands for   *)
(*    k / 1000, and a product is rounded to the nearest grid point.        *)
(***************************************************************************)
EXTENDS Integers, Sequences, FiniteSets, TLC

VARIABLES
    current_turn,   \* World.current_turn
    particles,      \* World.particles, index 1 of the sequence is Vec index 0
    height,         \* World.height
    width,          \* World.width
    fault,          \* TRUE once a call has panicked (the process is unwinding)
    next_id,        \* ghost: identity given to the next particle created
    removed,        \* ghost: identities of the particles removed so far
    last_op,        \* ghost: the last World operation, its argument and pre-state
    updates_done,   \* ghost: the number of update() calls that returned
    heap,           \* System allocator: the live blocks [ptr, layout]
    trace,          \* what the ReportingAllocator did, in program order
    requests,       \* ghost: the requests made to the ReportingAllocator
    last_ret,       \* the value returned by the last ReportingAllocator call
    direct_heap,    \* ghost: System allocator driven directly by the same requests
    direct_ret      \* ghost: what the direct call returned

world_vars == <<current_turn, particles, height, width, fault, next_id, removed, last_op,
                updates_done>>
alloc_vars == <<heap, trace, requests, last_ret, direct_heap, direct_ret>>
vars == <<current_turn, particles, height, width, fault, next_id, removed, last_op,
          updates_done, heap, trace, requests, last_ret, direct_heap, direct_ret>>

(***************************************************************************)
(* Bounds of the model.                                                    *)
(***************************************************************************)
MaxTurn == 3          \* update() calls explored by Spec
MaxParticles == 4     \* longest collection explored by Spec
MaxSpawned == 5       \* particles created in one behaviour of Spec
MaxArg == 2           \* add_shapes / remove_shapes are called with -MaxArg..MaxArg
MaxFadeTurn == 20000  \* update() calls explored by FadeSpec
OldAge == 779         \* update() calls the old particles of AgedSpec have lived
MaxRequests == 3      \* allocator requests explored by AllocSpec
MaxAddress == 2       \* addresses the System allocator hands out in AllocSpec

(***************************************************************************)
(* Constants of the program.                                               *)
(***************************************************************************)
WindowWidth == 1280   \* main: width
WindowHeight == 960   \* main: height
MaxDrawWide == 3 + 1  \* variant: a wider range of draws
MaxDraw == 3          \* update: gen_range(-3..=3)

(***************************************************************************)
(* f32                                                                     *)
(***************************************************************************)
Limb == 2^12
TwoPow22 == 2^22
TwoPow23 == 2^23
TwoPow24 == 2^24
F32MinExp == 0 - 149

F32_1_0 == [m |-> 8388608, e |-> -23]     \* 1.0f32
F32_0_99 == [m |-> 16609444, e |-> -24]   \* 0.99f32
F32_0_995 == [m |-> 16693330, e |-> -24]  \* 0.995f32
F32_0_02 == [m |-> 10737418, e |-> -29]   \* 0.02f32
F32Zero == [m |-> 0, e |-> -149]

\* The 48-bit product a * b of two 24-bit mantissas as hi * 2^24 + lo.
WideMul(a, b) ==
    LET ah == a \div Limb
        al == a % Limb
        bh == b \div Limb
        bl == b % Limb
        low == al * bl
        mid == ah * bl + al * bh
        high == ah * bh
        t1 == (low \div Limb) + (mid % Limb)
    IN  [hi |-> high + (mid \div Limb) + (t1 \div Limb),
         lo |-> (t1 % Limb) * Limb + (low % Limb)]

\* Round q + r/(2*half) to the nearest integer, ties to even.
RoundNearestEven(q, r, half) ==
    IF r > half \/ (r = half /\ q % 2 = 1) THEN q + 1 ELSE q

\* Variant: the product is rounded toward zero.
F32MulFracTruncate(x, c) ==
    LET p == WideMul(x.m, c.m)
        keep == p.hi >= TwoPow23 \/ x.e = F32MinExp
    IN  IF keep THEN [m |-> p.hi, e |-> x.e]
        ELSE [m |-> 2 * p.hi + (p.lo \div TwoPow23), e |-> x.e - 1]

\* x * c in f32, for a factor c in [0.5, 1) (c.e = -24, c.m normal).
F32MulFrac(x, c) ==
    LET p == WideMul(x.m, c.m)
        keep == p.hi >= TwoPow23 \/ x.e = F32MinExp
        q == IF keep THEN p.hi ELSE 2 * p.hi + (p.lo \div TwoPow23)
        r == IF keep THEN p.lo ELSE p.lo % TwoPow23
        half == IF keep THEN TwoPow23 ELSE TwoPow22
        e == IF keep THEN x.e ELSE x.e - 1
        m == RoundNearestEven(q, r, half)
    IN  IF m = TwoPow24 THEN [m |-> TwoPow23, e |-> e + 1] ELSE [m |-> m, e |-> e]

\* x < y for two non-negative f32.
F32Lt(x, y) ==
    IF x.m = 0 \/ y.m = 0 THEN x.m = 0 /\ y.m > 0
    ELSE IF x.m < TwoPow23 \/ y.m < TwoPow23
         THEN (x.m < y.m /\ x.e <= y.e) \/ (x.e < y.e /\ y.m >= TwoPow23)
         ELSE x.e < y.e \/ (x.e = y.e /\ x.m < y.m)

F32Le(x, y) == x = y \/ F32Lt(x, y)

(***************************************************************************)
(* f64 on the 1/1000 grid                                                  *)
(***************************************************************************)
Fx(n, d) == (n * 1000) \div d           \* the grid point of n/d (n/d on the grid)

\* k * n/d rounded to the nearest grid point (ties away from zero).
FxMulRatio(k, n, d) ==
    LET num == k * n
        a == IF num < 0 THEN -num ELSE num
        q == (2 * a + d) \div (2 * d)
    IN  IF num < 0 THEN -q ELSE q

\* Variant: the components of the second vector are crossed.
addCrossed(a, b) == <<a[1] + b[2], a[2] + b[1]>>

\* graphics::math::add on Vec2d
add(a, b) == <<a[1] + b[1], a[2] + b[2]>>

\* graphics::math::mul_scalar on Vec2d, by the scalar n/d
mul_scalar(a, n, d) == <<FxMulRatio(a[1], n, d), FxMulRatio(a[2], n, d)>>

(***************************************************************************)
(* Particle                                                                *)
(***************************************************************************)
\* The values one Particle::new may draw from the random generator:
\* x in [0, w], y_velocity in [-2.0, 0.0), y_acceleration in [0.0, 0.15).
SpawnDraws(w) ==
    { [x |-> 0, y_velocity |-> Fx(-2, 1), y_acceleration |-> 0],
      [x |-> w, y_velocity |-> Fx(-1, 2), y_acceleration |-> Fx(1, 10)] }

\* Variant: the drawn speed and acceleration go to the x components.
ParticleNewSideways(world_width, world_height, draw, id) ==
    [ id |-> id,
      height |-> Fx(4, 1),
      width |-> Fx(4, 1),
      position |-> <<draw.x, world_height>>,
      velocity |-> <<draw.y_velocity, 0>>,
      acceleration |-> <<draw.y_acceleration, 0>>,
      color |-> <<F32_1_0, F32_1_0, F32_1_0, F32_0_99>> ]

\* Particle::new(&world), with the values drawn and the ghost identity.
ParticleNew(world_width, world_height, draw, id) ==
    [ id |-> id,
      height |-> Fx(4, 1),
      width |-> Fx(4, 1),
      position |-> <<draw.x, world_height>>,
      velocity |-> <<0, draw.y_velocity>>,
      acceleration |-> <<0, draw.y_acceleration>>,
      color |-> <<F32_1_0, F32_1_0, F32_1_0, F32_0_99>> ]

\* Variant: the whole colour is faded, not its alpha alone.
ParticleUpdateFadeColor(p) ==
    [p EXCEPT !.velocity = add(p.velocity, p.acceleration),
              !.position = add(p.position, add(p.velocity, p.acceleration)),
              !.acceleration = mul_scalar(p.acceleration, 7, 10),
              !.color = [k \in 1..4 |-> F32MulFrac(p.color[k], F32_0_995)]]

\* Variant: the acceleration is decayed before the velocity uses it.
ParticleUpdateDecayFirst(p) ==
    LET acceleration == mul_scalar(p.acceleration, 7, 10)
        velocity == add(p.velocity, acceleration)
        position == add(p.position, velocity)
    IN  [p EXCEPT !.velocity = velocity,
                  !.position = position,
                  !.acceleration = acceleration,
                  !.color[4] = F32MulFrac(p.color[4], F32_0_995)]

\* Particle::update(&mut self)
ParticleUpdate(p) ==
    LET velocity == add(p.velocity, p.acceleration)
        position == add(p.position, velocity)
        acceleration == mul_scalar(p.acceleration, 7, 10)
    IN  [p EXCEPT !.velocity = velocity,
                  !.position = position,
                  !.acceleration = acceleration,
                  !.color[4] = F32MulFrac(p.color[4], F32_0_995)]

(***************************************************************************)
(* World                                                                   *)
(***************************************************************************)
\* i32::abs, for the arguments the model passes (never i32::MIN)
Abs(n) == IF n < 0 THEN -n ELSE n

\* Variant: the new element is inserted at the front.
VecPushFront(v, x) == <<x>> \o v

\* Vec::push
VecPush(v, x) == Append(v, x)

\* Variant: Vec::swap_remove, the last element takes the place of the one
\* taken out.
VecSwapRemove(v, i) ==
    [k \in 1..(Len(v) - 1) |-> IF k = i + 1 THEN v[Len(v)] ELSE v[k]]

\* Vec::remove(i), i counted from 0; defined for i < len only
VecRemove(v, i) == [k \in 1..(Len(v) - 1) |-> IF k <= i THEN v[k] ELSE v[k + 1]]

\* The body of add_shapes: one Particle::new and one push per draw.
RECURSIVE AddLoop(_, _, _, _, _)
AddLoop(v, w, h, draws, id) ==
    IF draws = <<>> THEN v
    ELSE AddLoop(VecPush(v, ParticleNew(w, h, Head(draws), id)), w, h, Tail(draws), id + 1)

Faded(p) == F32Lt(p.color[4], F32_0_02)

\* Variant: the scan has no break, so the last nearly invisible particle is
\* the one marked.
RemoveIterNoBreak(v) ==
    LET faded == {i \in 1..Len(v) : Faded(v[i])}
        index == IF faded # {} THEN (CHOOSE i \in faded : \A j \in faded : j <= i) - 1 ELSE 0
    IN  IF index < Len(v)
        THEN [particles |-> VecRemove(v, index), gone |-> {v[index + 1].id},
              panicked |-> FALSE]
        ELSE [particles |-> v, gone |-> {}, panicked |-> TRUE]

\* Variant: the particle taken out is reset and put back at the tail.
RemoveIterRecycle(v) ==
    IF v = <<>> THEN [particles |-> v, gone |-> {}, panicked |-> TRUE]
    ELSE [particles |-> Append(Tail(v), [v[1] EXCEPT !.color[4] = F32_0_99]),
          gone |-> {v[1].id}, panicked |-> FALSE]

\* One iteration of the loop of remove_shapes.  to_delete is Some(0) when the
\* first particle exists and is nearly invisible, None (-1) otherwise; the
\* inner loop breaks after its first element.  Both branches then call
\* Vec::remove, which panics when the index is not below the length.
RemoveIter(v) ==
    LET to_delete == IF Len(v) > 0 /\ Faded(v[1]) THEN 0 ELSE -1
        index == IF to_delete # -1 THEN to_delete ELSE 0
    IN  IF index < Len(v)
        THEN [particles |-> VecRemove(v, index), gone |-> {v[index + 1].id},
              panicked |-> FALSE]
        ELSE [particles |-> v, gone |-> {}, panicked |-> TRUE]

\* Variant: the range of the loop includes its end (0..=n.abs()), one
\* iteration too many.
RECURSIVE RemoveLoopInclusive(_, _)
RemoveLoopInclusive(v, k) ==
    IF k < 0 THEN [particles |-> v, gone |-> {}, panicked |-> FALSE]
    ELSE LET r == RemoveIter(v)
         IN  IF r.panicked THEN r
             ELSE LET rest == RemoveLoopInclusive(r.particles, k - 1)
                  IN  [rest EXCEPT !.gone = r.gone \cup rest.gone]

\* The loop of remove_shapes, k iterations left; a panic ends it.  gone is
\* the set of identities of the particles Vec::remove took out.
RECURSIVE RemoveLoop(_, _)
RemoveLoop(v, k) ==
    IF k = 0 THEN [particles |-> v, gone |-> {}, panicked |-> FALSE]
    ELSE LET r == RemoveIter(v)
         IN  IF r.panicked THEN r
             ELSE LET rest == RemoveLoop(r.particles, k - 1)
                  IN  [rest EXCEPT !.gone = r.gone \cup rest.gone]

\* The loop of update over the collection.
UpdateAll(v) == [i \in 1..Len(v) |-> ParticleUpdate(v[i])]

Ids(v) == {v[i].id : i \in 1..Len(v)}

LastOp(op, n) == [op |-> op, n |-> n, before |-> particles, next_id |-> next_id]

\* World::new(width, height) as main calls it; the allocator has served nothing.
Init ==
    /\ current_turn = 0
    /\ particles = <<>>
    /\ height = Fx(WindowHeight, 1)
    /\ width = Fx(WindowWidth, 1)
    /\ fault = FALSE
    /\ next_id = 1
    /\ removed = {}
    /\ last_op = [op |-> "new", n |-> 0, before |-> <<>>, next_id |-> 1]
    /\ updates_done = 0
    /\ heap = {}
    /\ trace = <<>>
    /\ requests = <<>>
    /\ last_ret = 0
    /\ direct_heap = {}
    /\ direct_ret = 0

\* world.add_shapes(n)
AddShapes(n) ==
    /\ ~fault
    /\ Len(particles) + Abs(n) <= MaxParticles
    /\ next_id + Abs(n) - 1 <= MaxSpawned
    /\ \E draws \in [1..Abs(n) -> SpawnDraws(width)] :
          particles' = AddLoop(particles, width, height, draws, next_id)
    /\ next_id' = next_id + Abs(n)
    /\ last_op' = LastOp("add_shapes", n)
    /\ UNCHANGED <<current_turn, height, width, fault, removed, updates_done>>
    /\ UNCHANGED alloc_vars

\* world.remove_shapes(n)
RemoveShapes(n) ==
    /\ ~fault
    /\ LET r == RemoveLoop(particles, Abs(n))
       IN  /\ particles' = r.particles
           /\ fault' = r.panicked
           /\ removed' = removed \cup r.gone
    /\ last_op' = LastOp("remove_shapes", n)
    /\ UNCHANGED <<current_turn, height, width, next_id, updates_done>>
    /\ UNCHANGED alloc_vars

\* world.update() when the generator returns n: the population step.
\* shrink_to_fit changes the capacity of the Vec only, which is no state here.
Populate(v, n, draws, id) ==
    IF n > 0
    THEN [particles |-> AddLoop(v, width, height, draws, id), gone |-> {},
          panicked |-> FALSE]
    ELSE RemoveLoop(v, Abs(n))

\* Variant: the particles are updated before the population changes.
UpdateBodyPhysicsFirst(v, n, draws, id) == Populate(UpdateAll(v), n, draws, id)

\* The body of update() up to the counter: the population step, then one
\* Particle::update per particle of the collection.  A panic ends it early.
UpdateBody(v, n, draws, id) ==
    LET r == Populate(v, n, draws, id)
    IN  IF r.panicked THEN r ELSE [r EXCEPT !.particles = UpdateAll(r.particles)]

\* Variant: the counter is left alone.
NextTurnForgotten(turn) == turn

\* self.current_turn += 1
NextTurn(turn) == turn + 1

\* world.update() when the generator returns n, explored for max_turn calls
Tick(n, max_turn) ==
    /\ ~fault
    /\ current_turn < max_turn
    /\ n > 0 => /\ Len(particles) + n <= MaxParticles
                /\ next_id + n - 1 <= MaxSpawned
    /\ \E draws \in [1..(IF n > 0 THEN n ELSE 0) -> SpawnDraws(width)] :
          LET r == UpdateBody(particles, n, draws, next_id)
          IN  /\ fault' = r.panicked
              /\ particles' = r.particles
              /\ current_turn' = IF r.panicked THEN current_turn ELSE NextTurn(current_turn)
              /\ updates_done' = IF r.panicked THEN updates_done ELSE updates_done + 1
              /\ removed' = removed \cup r.gone
    /\ next_id' = IF n > 0 THEN next_id + n ELSE next_id
    /\ last_op' = LastOp("update", n)
    /\ UNCHANGED <<height, width>>
    /\ UNCHANGED alloc_vars

Update(n) == Tick(n, MaxTurn)

WorldNext ==
    \/ \E n \in (0 - MaxArg)..MaxArg : AddShapes(n)
    \/ \E n \in (0 - MaxArg)..MaxArg : RemoveShapes(n)
    \/ \E n \in (0 - MaxDraw)..MaxDraw : Update(n)

Spec == Init /\ [][WorldNext]_vars

(***************************************************************************)
(* One particle followed over its whole fade: the world after              *)
(* World::new and add_shapes(1), then update() with the draw 0 each time   *)
(* (no particle is added or removed, each update() fades the particle      *)
(* once, exactly as any other draw does to a particle that stays).         *)
(***************************************************************************)
FadeInit ==
    /\ current_turn = 0
    /\ height = Fx(WindowHeight, 1)
    /\ width = Fx(WindowWidth, 1)
    /\ \E draw \in SpawnDraws(width) :
          particles = AddLoop(<<>>, width, height, <<draw>>, 1)
    /\ fault = FALSE
    /\ next_id = 2
    /\ removed = {}
    /\ last_op = [op |-> "add_shapes", n |-> 1, before |-> <<>>, next_id |-> 1]
    /\ updates_done = 0
    /\ heap = {}
    /\ trace = <<>>
    /\ requests = <<>>
    /\ last_ret = 0
    /\ direct_heap = {}
    /\ direct_ret = 0

FadeTick == Tick(0, MaxFadeTurn)

FadeSpec == FadeInit /\ [][FadeTick]_vars

(***************************************************************************)
(* Worlds with old particles.  A particle is nearly invisible              *)
(* (alpha < 0.02) from its 779th update on, which Spec cannot reach within *)
(* MaxTurn.  AgedSpec starts from worlds that update() has run OldAge - 1  *)
(* or OldAge times on: World::new, then add_shapes calls and update()      *)
(* calls drawing 0 in any order.  Such a world holds, in spawn order,      *)
(* particles of any ages that do not increase along the index.             *)
(***************************************************************************)
\* The particle p after k calls of Particle::update (the first half of the
\* calls, then the rest, so that the evaluation stays shallow)
RECURSIVE Aged(_, _)
Aged(p, k) ==
    IF k <= 0 THEN p
    ELSE IF k = 1 THEN ParticleUpdate(p)
    ELSE LET half == k \div 2
         IN  CHOOSE r \in {Aged(q, k - half) : q \in {Aged(p, half)}} : TRUE

AgedTurns == {OldAge - 1, OldAge}
Ages == {0, OldAge - 1, OldAge}

\* A particle of main's window after it was created from draw and updated
\* k times, for each draw and each k that AgedInit uses.
AgedParticle ==
    [draw \in SpawnDraws(Fx(WindowWidth, 1)), k \in Ages \cup {OldAge - 2} |->
        Aged(ParticleNew(Fx(WindowWidth, 1), Fx(WindowHeight, 1), draw, 0), k)]

AgedInit ==
    /\ height = Fx(WindowHeight, 1)
    /\ width = Fx(WindowWidth, 1)
    /\ current_turn \in AgedTurns
    /\ updates_done = current_turn
    /\ \E len \in 0..MaxParticles :
       \E ages \in [1..len -> Ages], draws \in [1..len -> SpawnDraws(width)] :
          /\ \A i \in 1..len : ages[i] <= current_turn
          /\ \A i \in 1..len, j \in 1..len : i < j => ages[i] >= ages[j]
          /\ particles = [i \in 1..len |->
                            [AgedParticle[draws[i], ages[i]] EXCEPT !.id = i]]
          /\ next_id = len + 1
          /\ last_op =
               IF len > 0 /\ ages[len] = 0
               THEN [op |-> "add_shapes", n |-> 1, next_id |-> len,
                     before |-> [i \in 1..(len - 1) |->
                                   [AgedParticle[draws[i], ages[i]] EXCEPT !.id = i]]]
               ELSE [op |-> "update", n |-> 0, next_id |-> len + 1,
                     before |-> [i \in 1..len |->
                                   [AgedParticle[draws[i], ages[i] - 1] EXCEPT !.id = i]]]
    /\ fault = FALSE
    /\ removed = {}
    /\ heap = {}
    /\ trace = <<>>
    /\ requests = <<>>
    /\ last_ret = 0
    /\ direct_heap = {}
    /\ direct_ret = 0

AgedUpdate(n) == Tick(n, OldAge + 1)

AgedNext ==
    \/ \E n \in (0 - MaxArg)..MaxArg : AddShapes(n)
    \/ \E n \in (0 - MaxArg)..MaxArg : RemoveShapes(n)
    \/ \E n \in (0 - MaxDraw)..MaxDraw : AgedUpdate(n)

AgedSpec == AgedInit /\ [][AgedNext]_vars

(***************************************************************************)
(* ReportingAllocator                                                      *)
(*                                                                         *)
(* The allocator serves every allocation of the process, those made        *)
(* inside World included, and shares no state with World.  It is explored  *)
(* on its own (AllocSpec) under every sequence of requests that respects   *)
(* the contract of GlobalAlloc: a non-zero size, and dealloc of a live     *)
(* block with the layout it was allocated with.                            *)
(***************************************************************************)
Null == 0
Addresses == 1..MaxAddress

\* Layouts requested by the program: a Box<Particle> (80 bytes) and a Vec
\* buffer of one pointer; any other non-zero layout behaves the same.
Layouts == { [size |-> 8, align |-> 8], [size |-> 80, align |-> 8] }

\* Instant::now() twice: the elapsed time in nanoseconds is any value
ElapsedNanos == {0, 1}

\* A call the ReportingAllocator makes to System
SystemCall(event, layout, ptr) ==
    [event |-> event, layout |-> layout, ptr |-> ptr, bytes |-> 0, nanos |-> 0]

\* eprintln!("{}\t{}", bytes_requested, time_taken.as_nanos())
Eprintln(bytes, nanos) ==
    [event |-> "eprintln", layout |-> [size |-> 0, align |-> 0], ptr |-> Null,
     bytes |-> bytes, nanos |-> nanos]

Request(op, layout, ptr) == [op |-> op, layout |-> layout, ptr |-> ptr]

\* What System.alloc(layout) may return on heap h: null, or an address
\* that is not live.
SystemAllocResults(h) == {Null} \cup (Addresses \ {b.ptr : b \in h})

\* The System allocator after alloc(layout) returned ptr
SystemAlloc(h, layout, ptr) ==
    IF ptr = Null THEN h ELSE h \cup {[ptr |-> ptr, layout |-> layout]}

\* The System allocator after dealloc(ptr, layout)
SystemDealloc(h, ptr, layout) == h \ {[ptr |-> ptr, layout |-> layout]}

\* The System allocator after the calls of a ReportingAllocator method
RECURSIVE SystemRun(_, _)
SystemRun(h, did) ==
    IF did = <<>> THEN h
    ELSE LET e == Head(did)
             after == IF e.event = "System.alloc" THEN SystemAlloc(h, e.layout, e.ptr)
                      ELSE IF e.event = "System.dealloc"
                           THEN SystemDealloc(h, e.ptr, e.layout)
                           ELSE h
         IN  SystemRun(after, Tail(did))

\* Variant: a failed allocation is tried a second time (and fails again).
ReportingAllocRetry(layout, ptr, nanos) ==
    [ did |-> IF ptr = Null
              THEN << SystemCall("System.alloc", layout, ptr),
                      SystemCall("System.alloc", layout, ptr),
                      Eprintln(layout.size, nanos) >>
              ELSE << SystemCall("System.alloc", layout, ptr),
                      Eprintln(layout.size, nanos) >>,
      ret |-> ptr ]

\* Variant: a failed allocation returns before the line is printed.
ReportingAllocSilentFailure(layout, ptr, nanos) ==
    [ did |-> IF ptr = Null
              THEN << SystemCall("System.alloc", layout, ptr) >>
              ELSE << SystemCall("System.alloc", layout, ptr),
                      Eprintln(layout.size, nanos) >>,
      ret |-> ptr ]

\* ReportingAllocator::alloc(layout), when System.alloc returns ptr and the
\* two clock readings are nanos apart: what it does, in program order, and
\* the value it returns.
ReportingAlloc(layout, ptr, nanos) ==
    [ did |-> << SystemCall("System.alloc", layout, ptr),
                 Eprintln(layout.size, nanos) >>,
      ret |-> ptr ]

\* ReportingAllocator::dealloc(ptr, layout): what it does
ReportingDealloc(ptr, layout) ==
    [ did |-> << SystemCall("System.dealloc", layout, ptr) >> ]

\* ALLOCATOR.alloc(layout)
Alloc(layout) ==
    /\ Len(requests) < MaxRequests
    /\ \E ptr \in SystemAllocResults(heap), nanos \in ElapsedNanos :
          LET r == ReportingAlloc(layout, ptr, nanos)
          IN  /\ heap' = SystemRun(heap, r.did)
              /\ trace' = trace \o r.did
              /\ last_ret' = r.ret
              /\ direct_heap' = SystemAlloc(direct_heap, layout, ptr)
              /\ direct_ret' = ptr
    /\ requests' = Append(requests, Request("alloc", layout, Null))
    /\ UNCHANGED world_vars

\* ALLOCATOR.dealloc(ptr, layout)
Dealloc(ptr, layout) ==
    /\ Len(requests) < MaxRequests
    /\ [ptr |-> ptr, layout |-> layout] \in heap
    /\ LET r == ReportingDealloc(ptr, layout)
       IN  /\ heap' = SystemRun(heap, r.did)
           /\ trace' = trace \o r.did
    /\ direct_heap' = SystemDealloc(direct_heap, ptr, layout)
    /\ requests' = Append(requests, Request("dealloc", layout, ptr))
    /\ UNCHANGED <<last_ret, direct_ret>>
    /\ UNCHANGED world_vars

AllocNext ==
    \/ \E layout \in Layouts : Alloc(layout)
    \/ \E ptr \in Addresses, layout \in Layouts : Dealloc(ptr, layout)

AllocSpec == Init /\ [][AllocNext]_vars

(***************************************************************************)
(* Properties                                                              *)
(***************************************************************************)
Alpha(p) == p.color[4]

\* The particles of v that were created by the last operation
IsNew(p) == p.id >= last_op.next_id

\* C1: every update() changes the number of particles by a value in -3..3,
\* and the number of particles is never negative.
C1_PopulationDelta ==
    last_op.op = "update" =>
        /\ Len(particles) - Len(last_op.before) \in (0 - 3)..3
        /\ Len(particles) >= 0

\* update() drew -3 on three particles and left none
C1_Witness ==
    /\ last_op.op = "update"
    /\ last_op.n = 0 - 3
    /\ Len(last_op.before) = 3
    /\ particles = <<>>
    /\ ~fault

\* C2: remove_shapes(n) with abs(n) greater than the number of particles
\* completes without a fault and leaves the collection empty.
C2_RemoveBeyondEmptyIsNoOp ==
    (last_op.op = "remove_shapes" /\ Abs(last_op.n) > Len(last_op.before))
        => (~fault /\ particles = <<>>)

\* C3: remove_shapes(n) on at least abs(n) particles removes exactly the
\* first abs(n) of them, whatever their alpha, and keeps the others in order.
C3_RemovesHead ==
    (last_op.op = "remove_shapes" /\ Len(last_op.before) >= Abs(last_op.n)) =>
        /\ ~fault
        /\ particles = SubSeq(last_op.before, Abs(last_op.n) + 1, Len(last_op.before))
        /\ \A i \in 1..Abs(last_op.n) : last_op.before[i].id \in removed

\* remove_shapes(2) took out a nearly invisible head, then a head that is
\* not, and left the rest
C3_Witness ==
    /\ last_op.op = "remove_shapes"
    /\ Abs(last_op.n) = 2
    /\ Len(last_op.before) >= 3
    /\ Faded(last_op.before[1])
    /\ ~Faded(last_op.before[2])
    /\ particles = SubSeq(last_op.before, 3, Len(last_op.before))

\* C4: the alpha of every particle stays in (0, 1] and does not increase
\* from one state to the next.
C4_AlphaFades ==
    /\ [](\A i \in 1..Len(particles) :
            /\ F32Lt(F32Zero, Alpha(particles[i]))
            /\ F32Le(Alpha(particles[i]), F32_1_0))
    /\ [][\A i \in 1..Len(particles), j \in 1..Len(particles') :
            particles[i].id = particles'[j].id
                => F32Le(Alpha(particles'[j]), Alpha(particles[i]))]_vars

\* the fade has come to a halt: one more update leaves alpha as it is
C4_Witness ==
    /\ last_op.op = "update"
    /\ Len(particles) = 1
    /\ Alpha(particles[1]).m < TwoPow23
    /\ F32MulFrac(Alpha(particles[1]), F32_0_995) = Alpha(particles[1])

\* C5: add_shapes(n) appends exactly abs(n) new particles after the ones
\* already there, which keep their indices; update() with a draw n > 0 adds
\* exactly n particles the same way.
C5_SpawnAtTail ==
    /\ last_op.op = "add_shapes" =>
          /\ Len(particles) = Len(last_op.before) + Abs(last_op.n)
          /\ SubSeq(particles, 1, Len(last_op.before)) = last_op.before
          /\ \A i \in (Len(last_op.before) + 1)..Len(particles) : IsNew(particles[i])
    /\ (last_op.op = "update" /\ last_op.n > 0) =>
          /\ Len(particles) = Len(last_op.before) + last_op.n
          /\ \A i \in 1..Len(last_op.before) : particles[i].id = last_op.before[i].id
          /\ \A i \in (Len(last_op.before) + 1)..Len(particles) : IsNew(particles[i])

\* add_shapes(-2) on a collection that was not empty
C5_Witness ==
    /\ last_op.op = "add_shapes"
    /\ last_op.n = 0 - 2
    /\ Len(last_op.before) >= 1
    /\ Len(particles) = Len(last_op.before) + 2

\* C6: in one update() every particle of the collection after the population
\* step, the ones created in this update() included, gets exactly one
\* Particle::update; a particle created in it ends with alpha 0.99 * 0.995.
C6_PopulationThenPhysics ==
    (last_op.op = "update" /\ ~fault) =>
        \A j \in 1..Len(particles) :
            IF IsNew(particles[j])
            THEN /\ Alpha(particles[j]) = F32MulFrac(F32_0_99, F32_0_995)
                 /\ \E draw \in SpawnDraws(width) :
                       particles[j] =
                          ParticleUpdate(ParticleNew(width, height, draw, particles[j].id))
            ELSE \E i \in 1..Len(last_op.before) :
                    /\ last_op.before[i].id = particles[j].id
                    /\ particles[j] = ParticleUpdate(last_op.before[i])

\* update() drew 3 on a collection that was not empty
C6_Witness ==
    /\ last_op.op = "update"
    /\ last_op.n = 3
    /\ Len(last_op.before) >= 1
    /\ Len(particles) = Len(last_op.before) + 3

\* C7: current_turn starts at 0, every update() that returns adds exactly 1
\* to it whatever the draw, add_shapes and remove_shapes leave it alone, so it
\* never decreases and is the number of update() calls that returned.
C7_TurnCounts ==
    /\ [](current_turn = updates_done /\ (last_op.op = "new" => current_turn = 0))
    /\ [][ /\ (last_op'.op = "update" /\ ~fault') => current_turn' = current_turn + 1
           /\ last_op'.op \in {"add_shapes", "remove_shapes"} => current_turn' = current_turn
           /\ current_turn' >= current_turn ]_vars

\* the second update() returned after a draw below 0
C7_Witness ==
    /\ last_op.op = "update"
    /\ last_op.n < 0
    /\ ~fault
    /\ current_turn = 2

(***************************************************************************)
(* Properties of the ReportingAllocator                                    *)
(***************************************************************************)
\* The calls made to System, as the requests they serve
Forwarded ==
    LET calls == SelectSeq(trace, LAMBDA e : e.event # "eprintln")
    IN  [i \in 1..Len(calls) |->
            IF calls[i].event = "System.alloc"
            THEN Request("alloc", calls[i].layout, Null)
            ELSE Request("dealloc", calls[i].layout, calls[i].ptr)]

\* What System returned to the alloc calls, in order
SystemReturned ==
    LET calls == SelectSeq(trace, LAMBDA e : e.event = "System.alloc")
    IN  [i \in 1..Len(calls) |-> calls[i].ptr]

AllocRequests == SelectSeq(requests, LAMBDA r : r.op = "alloc")

\* C8: each request is passed to System exactly once, with the same layout
\* and pointer; alloc returns what System returned, null included; the
\* results and the state of System are those of the same requests made to
\* System directly.
C8_ForwardingTransparent ==
    /\ Forwarded = requests
    /\ AllocRequests # <<>> => last_ret = SystemReturned[Len(SystemReturned)]
    /\ last_ret = direct_ret
    /\ heap = direct_heap

\* three requests: an alloc that succeeded, its dealloc, an alloc that failed
C8_Witness ==
    /\ Len(requests) = 3
    /\ requests[1].op = "alloc"
    /\ requests[2].op = "dealloc"
    /\ requests[3].op = "alloc"
    /\ last_ret = Null
    /\ heap = {}

\* C9: every alloc prints exactly one line, with the size requested, after
\* the call to System has returned and also when it returned null; dealloc
\* prints nothing and does nothing but the call to System.
C9_OneLinePerAlloc ==
    LET lines == SelectSeq(trace, LAMBDA e : e.event = "eprintln")
        deallocs == SelectSeq(requests, LAMBDA r : r.op = "dealloc")
    IN  /\ Len(lines) = Len(AllocRequests)
        /\ \A k \in 1..Len(lines) : lines[k].bytes = AllocRequests[k].layout.size
        /\ \A i \in 1..Len(trace) :
              /\ trace[i].event = "eprintln" =>
                    /\ i > 1
                    /\ trace[i - 1].event = "System.alloc"
                    /\ trace[i - 1].layout.size = trace[i].bytes
              /\ trace[i].event = "System.alloc" =>
                    /\ i < Len(trace)
                    /\ trace[i + 1].event = "eprintln"
        /\ Len(trace) = 2 * Len(AllocRequests) + Len(deallocs)

\* an alloc that failed has printed its line, and a dealloc was served
C9_Witness ==
    /\ \E i \in 1..(Len(trace) - 1) :
          /\ trace[i].event = "System.alloc"
          /\ trace[i].ptr = Null
          /\ trace[i + 1].event = "eprintln"
          /\ trace[i + 1].bytes = 80
    /\ \E i \in 1..Len(trace) : trace[i].event = "System.dealloc"

\* C10: with one identity per particle created, no identity is twice in the
\* collection, a removed particle is never in the collection again, and a
\* particle that add_shapes creates has a new identity and the state that
\* Particle::new gives it.
C10_RemovalIsPermanent ==
    /\ [](/\ Cardinality(Ids(particles)) = Len(particles)
          /\ Ids(particles) \cap removed = {}
          /\ \A id \in Ids(particles) \cup removed : id < next_id
          /\ last_op.op = "add_shapes" =>
                \A i \in (Len(last_op.before) + 1)..Len(particles) :
                    /\ particles[i].id \notin removed \cup Ids(last_op.before)
                    /\ \E draw \in SpawnDraws(width) :
                          particles[i] = ParticleNew(width, height, draw, particles[i].id))
    /\ [][removed \subseteq removed']_vars

\* particles were removed, then add_shapes created new ones
C10_Witness ==
    /\ removed # {}
    /\ last_op.op = "add_shapes"
    /\ Abs(last_op.n) >= 1
    /\ Len(last_op.before) >= 1
    /\ current_turn >= 1

\* C11: the collection is in spawn order in every state: of two particles,
\* the one at the lower index was created first, so index 0 holds the oldest.
C11_SpawnOrder ==
    \A i \in 1..Len(particles), j \in 1..Len(particles) :
        i < j => particles[i].id < particles[j].id

\* particles were removed and others created, by update() and by direct
\* calls, and three or more are in the collection
C11_Witness ==
    /\ removed # {}
    /\ Len(particles) >= 3
    /\ current_turn >= 2
    /\ last_op.op = "add_shapes"
    /\ Len(last_op.before) >= 1
    /\ particles[1].id > 1

\* C12: no step changes the size or the three colour channels of a particle
\* that stays in the collection, nor the width and height of the World.
C12_FrameOfTick ==
    [][ /\ width' = width
        /\ height' = height
        /\ \A i \in 1..Len(particles), j \in 1..Len(particles') :
              particles[i].id = particles'[j].id =>
                 /\ particles'[j].width = particles[i].width
                 /\ particles'[j].height = particles[i].height
                 /\ \A k \in 1..3 : particles'[j].color[k] = particles[i].color[k] ]_vars

\* update() has run on a particle that had been updated before, and its
\* position, velocity, acceleration and alpha have all changed
C12_Witness ==
    /\ last_op.op = "update"
    /\ ~fault
    /\ \E i \in 1..Len(last_op.before), j \in 1..Len(particles) :
          /\ last_op.before[i].id = particles[j].id
          /\ Alpha(last_op.before[i]) # F32_0_99
          /\ particles[j].position # last_op.before[i].position
          /\ particles[j].velocity # last_op.before[i].velocity
          /\ particles[j].acceleration # last_op.before[i].acceleration
          /\ Alpha(particles[j]) # Alpha(last_op.before[i])
          /\ particles[j].width = Fx(4, 1)
          /\ particles[j].color[1] = F32_1_0

\* C14: update() with the draw 0 removes and adds nothing, on an empty
\* collection too: the same particles stay at the same indices, each gets
\* its Particle::update, and current_turn is incremented.
C14_DrawZero ==
    [][ (last_op'.op = "update" /\ last_op'.n = 0) =>
            /\ ~fault'
            /\ Len(particles') = Len(particles)
            /\ \A i \in 1..Len(particles) :
                  /\ particles'[i].id = particles[i].id
                  /\ particles'[i] = ParticleUpdate(particles[i])
            /\ removed' = removed
            /\ next_id' = next_id
            /\ current_turn' = current_turn + 1 ]_vars

\* update() drew 0 on two or more particles whose head was nearly invisible
C14_Witness ==
    /\ last_op.op = "update"
    /\ current_turn > OldAge
    /\ last_op.n = 0
    /\ ~fault
    /\ Len(last_op.before) >= 2
    /\ Faded(last_op.before[1])
    /\ Len(particles) = Len(last_op.before)

\* C15: after update(), a particle that was in the collection before it has
\* velocity = old velocity + old acceleration (the acceleration before its
\* decay), position = old position + that new velocity, acceleration = 0.7 *
\* old acceleration and alpha = 0.995 * old alpha.
C15_StepOrder ==
    last_op.op = "update" =>
        \A i \in 1..Len(last_op.before), j \in 1..Len(particles) :
            LET old == last_op.before[i]
                new == particles[j]
            IN  old.id = new.id =>
                   /\ \A c \in 1..2 :
                         /\ new.velocity[c] = old.velocity[c] + old.acceleration[c]
                         /\ new.position[c] = old.position[c] + new.velocity[c]
                         /\ new.acceleration[c] = FxMulRatio(old.acceleration[c], 7, 10)
                   /\ Alpha(new) = F32MulFrac(Alpha(old), F32_0_995)

\* a particle with a moving, accelerating pre-state went through update()
C15_Witness ==
    /\ last_op.op = "update"
    /\ \E i \in 1..Len(last_op.before), j \in 1..Len(particles) :
          LET old == last_op.before[i]
              new == particles[j]
          IN  /\ old.id = new.id
              /\ old.acceleration[2] > 0
              /\ old.velocity[2] # 0
              /\ Alpha(old) # F32_0_99
              /\ new.acceleration[2] < old.acceleration[2]
              /\ new.velocity[2] > old.velocity[2] + new.acceleration[2]

\* y is exactly the real product x * c (c.e = -24): nothing was rounded off.
F32ExactProduct(y, x, c) ==
    LET p == WideMul(x.m, c.m)
    IN  \/ y.e = x.e /\ y.m = p.hi /\ p.lo = 0
        \/ y.e = x.e - 1 /\ y.m = 2 * p.hi + (p.lo \div TwoPow23) /\ p.lo % TwoPow23 = 0

\* y is an f32 next to the real product x * c, at most half a unit of its
\* last place away from it.
F32NearestProduct(y, x, c) ==
    LET p == WideMul(x.m, c.m)
        q == 2 * p.hi + (p.lo \div TwoPow23)
        r == p.lo % TwoPow23
    IN  \/ y.e = x.e /\ y.m = p.hi /\ p.lo <= TwoPow23
        \/ y.e = x.e /\ y.m = p.hi + 1 /\ p.lo >= TwoPow23
        \/ y.e = x.e - 1 /\ y.m = q /\ r <= TwoPow22
        \/ y.e = x.e - 1 /\ y.m = q + 1 /\ r >= TwoPow22

\* The subnormal at which alpha comes to rest: 100 * 2^-149.
AlphaFloor == [m |-> 100, e |-> F32MinExp]

C17_InitialParticle ==
    last_op.op = "add_shapes" =>
        \A i \in 1..Len(particles) :
            LET p == particles[i]
            IN  IsNew(p) =>
                   /\ p.position[2] = height
                   /\ p.position[1] >= 0 /\ p.position[1] <= width
                   /\ p.velocity[1] = 0
                   /\ p.velocity[2] >= Fx(-2, 1) /\ p.velocity[2] < 0
                   /\ p.acceleration[1] = 0
                   /\ p.acceleration[2] >= 0 /\ p.acceleration[2] < Fx(15, 100)
                   /\ p.width = Fx(4, 1) /\ p.height = Fx(4, 1)
                   /\ Alpha(p) = F32_0_99

\* add_shapes created two particles from different draws, behind an older
\* particle that has moved and faded since its creation
C17_Witness ==
    /\ last_op.op = "add_shapes"
    /\ Len(last_op.before) >= 1
    /\ particles[1].position[2] # height
    /\ Alpha(particles[1]) # F32_0_99
    /\ \E i \in 1..Len(particles), j \in 1..Len(particles) :
          /\ IsNew(particles[i]) /\ IsNew(particles[j])
          /\ particles[i].position[1] = 0 /\ particles[j].position[1] = width
          /\ particles[i].acceleration[2] = 0 /\ particles[j].acceleration[2] > 0

\* C18: in every state alpha does not decrease along the index, so the head
\* has the smallest alpha of the collection, and when any particle has alpha
\* < 0.02 the head has too.
C18_AlphaSorted ==
    /\ \A i \in 1..Len(particles), j \in 1..Len(particles) :
          i < j => F32Le(Alpha(particles[i]), Alpha(particles[j]))
    /\ (\E i \in 1..Len(particles) : Faded(particles[i]))
          => Faded(particles[1])

\* after an update() that spawned: a nearly invisible head, a particle still
\* visible behind it and a fresh one at the tail
C18_Witness ==
    /\ last_op.op = "update"
    /\ current_turn > OldAge
    /\ last_op.n > 0
    /\ Len(particles) >= 3
    /\ Faded(particles[1])
    /\ ~Faded(particles[2])
    /\ F32Lt(Alpha(particles[2]), Alpha(particles[Len(particles)]))

\* C19: a particle never moves horizontally: in every state its velocity.x
\* and acceleration.x are 0 and its position.x is a value drawn at a spawn,
\* and no operation changes the position.x of a particle it keeps.
C19_NoHorizontalMotion ==
    /\ \A i \in 1..Len(particles) :
          /\ particles[i].velocity[1] = 0
          /\ particles[i].acceleration[1] = 0
          /\ particles[i].position[1] \in {d.x : d \in SpawnDraws(width)}
    /\ \A i \in 1..Len(last_op.before), j \in 1..Len(particles) :
          last_op.before[i].id = particles[j].id
             => particles[j].position[1] = last_op.before[i].position[1]

\* update() moved a particle of many updates and a younger one, each down its
\* own column
C19_Witness ==
    /\ last_op.op = "update"
    /\ current_turn > OldAge
    /\ \E i \in 1..Len(last_op.before), j \in 1..Len(particles), k \in 1..Len(particles) :
          /\ last_op.before[i].id = particles[j].id
          /\ Faded(particles[j])
          /\ particles[j].position[2] # last_op.before[i].position[2]
          /\ particles[j].position[1] = last_op.before[i].position[1]
          /\ particles[k].position[1] # particles[j].position[1]
          /\ particles[k].position[2] # particles[j].position[2]
          /\ particles[k].velocity[2] # 0

====
